---- MODULE Spec2Model ----
(***************************************************************************)
(* The session routers of dcurvin-mcp-server and the run_select_query      *)
(* tool.  The repository holds several versions of the same server; each   *)
(* is one value of `variant`:                                              *)
(*   StreamV1    index.js 97-136 (also 524-563, part_001 117-156)          *)
(*   StreamSse   index.js 661-770 (also 935-1031)                          *)
(*   SseQuery    part_000 41-76                                            *)
(*   SsePath     part_002 41-80                                            *)
(*   SseNoClose  part_002 127-153                                          *)
(*   GlobalA     index.js 818-835                                          *)
(*   GlobalB     part_002 200-214                                          *)
(* A route handler runs to its first wait on real I/O without any other    *)
(* handler running (Node's event loop), so each handler is one action up   *)
(* to the tool's `await pool.query`, which is the action DbDone.           *)
(* randomUUID() and Math.random() are taken never to repeat a value.       *)
(***************************************************************************)
EXTENDS Integers, Sequences, FiniteSets, Bags, TLC

VARIABLES
  variant,          \* which version of the server is running
  transports,       \* transports / sessions: session id -> transport
  sseTransports,    \* sseTransports (StreamSse only): session id -> transport
  activeTransport,  \* activeTransport / transport (Global variants)
  serverTransport,  \* _transport of the module-level McpServer
  tr,               \* the transport objects created so far
  nextSid,          \* the next value the identifier generator returns
  calls,            \* tool calls waiting on pool.query (a bag)
  last,             \* the request handled last and what the handler did
  tool,             \* the tool invoked (tool handlers on their own)
  sql, qpc, qres, dbq, \* the handler's statement, position, result, statements given to pool.query
  rows,             \* result.rows of the api_schemas query of get_field_description
  fres              \* what get_field_description returned

vars == <<variant, transports, sseTransports, activeTransport, serverTransport,
          tr, nextSid, calls, last, tool, sql, qpc, qres, dbq, rows, fres>>

routerVars == <<variant, transports, sseTransports, activeTransport, serverTransport,
                tr, nextSid, calls, last>>

fieldVars == <<rows, fres>>

queryVars == <<tool, sql, qpc, qres, dbq, fieldVars>>

----------------------------------------------------------------------------
(* Bounds *)

MaxTransports == 2
MaxCalls == 2
MaxAtoms == 3
MaxSections == 2

----------------------------------------------------------------------------
(* Values *)

\* req.headers["mcp-session-id"] / req.query.sessionId when the request has none
NoSid == 0
\* a name every plain object inherits ("constructor", "toString", ...)
InheritedKey == -1
\* undefined / null
Undefined == 0
\* what transports["constructor"] evaluates to: a function of Object.prototype
ProtoValue == -1

StreamVariants == {"StreamV1", "StreamSse"}
MapVariants == {"SseQuery", "SsePath", "SseNoClose"}
GlobalVariants == {"GlobalA", "GlobalB"}
Variants == StreamVariants \cup MapVariants \cup GlobalVariants

\* the identifiers a client can put in a request
ClientSids == (1..MaxTransports) \cup {InheritedKey}
Bodies == {"init", "call"}

EmptyStore == [k \in {} |-> Undefined]
Put(store, k, v) == [x \in (DOMAIN store) \cup {k} |-> IF x = k THEN v ELSE store[x]]
\* a delete that clears the whole store
DelAll(store, k) == [x \in {} |-> Undefined]

\* delete store[k] / store.delete(k)
Del(store, k) == [x \in (DOMAIN store) \ {k} |-> store[x]]

\* store[sid] on a plain object {}: own keys first, then Object.prototype
ObjectGet(store, sid) ==
  IF sid \in DOMAIN store THEN store[sid]
  ELSE IF sid = InheritedKey THEN ProtoValue
  ELSE Undefined

\* store.get(sid) on a Map: own keys only
MapGet(store, sid) == IF sid \in DOMAIN store THEN store[sid] ELSE Undefined

Truthy(v) == v # Undefined

\* isInitializeRequest(req.body)
isInitializeRequest(body) == body = "init"

\* const server = new McpServer(...) at module level, shared by every connection
SharedServer == variant \in MapVariants \cup GlobalVariants

Transports == 1..Len(tr)

Ev(op, sid, body, status, fwd, created, issued, threw) ==
  [op |-> op, sid |-> sid, body |-> body, status |-> status, fwd |-> fwd,
   created |-> created, issued |-> issued, threw |-> threw,
   result |-> "none",      \* what a tool handler returned ("db" events)
   late |-> FALSE]         \* whether the call answered arrived after one of its session that still waits

NoEv == Ev("none", NoSid, "none", 0, Undefined, Undefined, NoSid, FALSE)

\* the tools registered on the server a transport is connected to: those of
\* createMcpServer() (index.js 33-92), or the one tool of the other versions
createMcpServer ==
  IF variant = "StreamV1"
    THEN {"list_tables", "get_table_schema", "run_select_query"}
    ELSE {"get_11st_orders"}

NewTransport(kind, key, listener) ==
  [kind |-> kind,          \* "http" (StreamableHTTPServerTransport) or "sse" (SSEServerTransport)
   key |-> key,            \* its session id
   open |-> TRUE,          \* whether its client is still connected
   listener |-> listener,  \* whether req.on('close') was registered for it
   tools |-> createMcpServer,  \* the tools of the server connected to it
   lost |-> FALSE]         \* whether the process that created it has ended

\* the transports, were a close to unregister the tools of the server
CloseTransportDroppingTools(t) == [tr EXCEPT ![t].open = FALSE, ![t].tools = {}]

\* the transports after the connection of t has ended
CloseTransport(t) == [tr EXCEPT ![t].open = FALSE]

\* sessionIdGenerator: () => randomUUID()  /  Math.random().toString(36).substring(2)
NewSid == nextSid

\* the callback, were it to leave the store as it is
OnSessionInitializedDropped(store, newSid, t) == store

\* the callback, were it to store the transport under a name the client chose
OnSessionInitializedClientKey(store, newSid, t) == Put(store, InheritedKey, t)

\* onsessioninitialized: (newSid) => { transports[newSid] = transport; }
OnSessionInitialized(store, newSid, t) == Put(store, newSid, t)

\* the callback, were it to empty the store
OnCloseAll(store, t) == EmptyStore

\* transport.onclose = () => { if (transport.sessionId) delete transports[transport.sessionId]; }
OnClose(store, t) == IF Truthy(tr[t].key) THEN Del(store, tr[t].key) ELSE store

\* the listener, were it to clear the store
CloseListenerAll(store, t) == EmptyStore

\* req.on('close', () => { transports.delete(sessionId); })
CloseListener(store, t) == Del(store, tr[t].key)

\* the transport a response of the server is sent on: Protocol keeps one
\* _transport per server, set by the latest connect() and read when the request arrives
ReplyVia(t) == IF SharedServer THEN serverTransport ELSE t

\* a tool call that starts its pool.query: the session it came in on and the
\* transport its response will be sent on
NewCall(sid, via) == [sid |-> sid, via |-> via]

----------------------------------------------------------------------------
(* Init *)

\* no result of get_field_description yet
NoResult == [success |-> FALSE, stage |-> "none", section |-> 0]

QueryOff ==
  /\ tool = "none"
  /\ sql = <<>>
  /\ qpc = "off"
  /\ qres = "none"
  /\ dbq = <<>>
  /\ rows = <<>>
  /\ fres = NoResult

Init ==
  /\ variant \in Variants
  /\ transports = EmptyStore
  /\ sseTransports = EmptyStore
  /\ activeTransport = Undefined
  /\ serverTransport = Undefined
  /\ tr = <<>>
  /\ nextSid = 1
  /\ calls = EmptyBag
  /\ last = NoEv
  /\ QueryOff

----------------------------------------------------------------------------
(* POST /mcp of the Streamable HTTP variants: mcpPostHandler *)

\* what the client gets when an async route handler rejects: nothing (Express 4
\* leaves the promise unhandled) or Express's 500 (Express 5 passes it to next)
AsyncThrowStatus == {0, 500}

\* transport.handleRequest(req, res, req.body) with `v` what the lookup returned
StreamHandlePost(v, sid, body) ==
  IF v = ProtoValue THEN
    \* v.handleRequest is undefined: TypeError inside the async handler
    /\ \E status \in AsyncThrowStatus :
         last' = Ev("POST", sid, body, status, Undefined, Undefined, NoSid, TRUE)
    /\ UNCHANGED <<transports, tr, nextSid, calls>>
  ELSE IF isInitializeRequest(body) THEN
    \* the transport is initialized already: it answers 400
    /\ last' = Ev("POST", sid, body, 400, v, Undefined, NoSid, FALSE)
    /\ UNCHANGED <<transports, tr, nextSid, calls>>
  ELSE
    /\ BagCardinality(calls) < MaxCalls
    /\ calls' = calls (+) SetToBag({NewCall(sid, v)})
    /\ last' = Ev("POST", sid, body, 200, v, Undefined, NoSid, FALSE)
    /\ UNCHANGED <<transports, tr, nextSid>>

\* the store after handleRequest of an initialize message: onsessioninitialized
\* is called only by a transport that accepted the request
Registered(store, newSid, t, valid) ==
  IF valid THEN OnSessionInitialized(store, newSid, t) ELSE store

\* new StreamableHTTPServerTransport, createMcpServer, connect, and handleRequest of
\* the initialize message, during which the transport generates its sessionId and
\* calls onsessioninitialized
\* `valid`: whether the transport accepts the request (its Accept and
\* Content-Type headers); it answers 406 otherwise, before it generates an identifier
StreamInitialize(body, valid) ==
  /\ Len(tr) < MaxTransports
  /\ LET t == Len(tr) + 1 IN
     /\ transports' = Registered(transports, NewSid, t, valid)
     /\ IF valid THEN
          /\ tr' = Append(tr, NewTransport("http", NewSid, FALSE))
          /\ nextSid' = nextSid + 1
          /\ last' = Ev("POST", NoSid, body, 200, t, t, NewSid, FALSE)
        ELSE
          \* a transport without sessionId that nothing refers to; its request is over
          /\ tr' = Append(tr, [NewTransport("http", NoSid, FALSE) EXCEPT !.open = FALSE])
          /\ nextSid' = nextSid
          /\ last' = Ev("POST", NoSid, body, 406, t, t, NoSid, FALSE)
  /\ UNCHANGED calls

\* the branches, were the second not to test isInitializeRequest(req.body)
PostBranchNoInitCheck(sid, body) ==
  IF Truthy(sid) /\ Truthy(ObjectGet(transports, sid)) THEN "existing"
  ELSE IF ~Truthy(sid) THEN "initialize"
  ELSE "reject"

\* which branch of mcpPostHandler a request takes
PostBranch(sid, body) ==
  IF Truthy(sid) /\ Truthy(ObjectGet(transports, sid)) THEN "existing"
  ELSE IF ~Truthy(sid) /\ isInitializeRequest(body) THEN "initialize"
  ELSE "reject"

PostMcp(sid, body, valid) ==
  /\ variant \in StreamVariants
  /\ CASE PostBranch(sid, body) = "existing" ->
            /\ valid
            /\ StreamHandlePost(ObjectGet(transports, sid), sid, body)
       [] PostBranch(sid, body) = "initialize" ->
            StreamInitialize(body, valid)
       [] OTHER ->
            /\ valid
            /\ last' = Ev("POST", sid, body, 400, Undefined, Undefined, NoSid, FALSE)
            /\ UNCHANGED <<transports, tr, nextSid, calls>>
  /\ UNCHANGED <<variant, sseTransports, activeTransport, serverTransport>>
  /\ UNCHANGED queryVars

----------------------------------------------------------------------------
(* GET /mcp and DELETE /mcp of the Streamable HTTP variants *)

\* whether app.delete("/mcp", ...) exists
HasDeleteRoute == variant = "StreamSse"

\* handleRequest, were every request of a session to end the session
StreamHandleSessionClosing(op, v, sid) ==
  /\ transports' = OnClose(transports, v)
  /\ tr' = [tr EXCEPT ![v].open = FALSE]
  /\ last' = Ev(op, sid, "none", 200, v, Undefined, NoSid, FALSE)

\* transport.handleRequest(req, res) for a GET or DELETE, v a transport
StreamHandleSession(op, v, sid) ==
  IF op = "DELETE" THEN
    \* the transport closes itself and calls onclose
    /\ transports' = OnClose(transports, v)
    /\ tr' = CloseTransport(v)
    /\ last' = Ev(op, sid, "none", 200, v, Undefined, NoSid, FALSE)
  ELSE
    /\ last' = Ev(op, sid, "none", 200, v, Undefined, NoSid, FALSE)
    /\ UNCHANGED <<transports, tr>>

SessionRequest(op, sid) ==
  /\ variant \in StreamVariants
  /\ LET v == ObjectGet(transports, sid) IN
     IF op = "DELETE" /\ ~HasDeleteRoute THEN
       \* no route: Express answers 404
       /\ last' = Ev(op, sid, "none", 404, Undefined, Undefined, NoSid, FALSE)
       /\ UNCHANGED <<transports, tr>>
     ELSE IF Truthy(sid) /\ Truthy(v) THEN
       IF v = ProtoValue THEN
         \* TypeError: thrown into Express (500) by the synchronous GET handler of
         \* StreamV1, an unhandled rejection of the async handleSessionRequest
         /\ \E status \in (IF variant = "StreamV1" THEN {500} ELSE AsyncThrowStatus) :
              last' = Ev(op, sid, "none", status, Undefined, Undefined, NoSid, TRUE)
         /\ UNCHANGED <<transports, tr>>
       ELSE StreamHandleSession(op, v, sid)
     ELSE
       /\ last' = Ev(op, sid, "none", 400, Undefined, Undefined, NoSid, FALSE)
       /\ UNCHANGED <<transports, tr>>
  /\ UNCHANGED <<variant, sseTransports, activeTransport, serverTransport, nextSid, calls>>
  /\ UNCHANGED queryVars

----------------------------------------------------------------------------
(* GET of the SSE variants: a new SSEServerTransport per connection *)

\* the route of the SSE endpoints: StreamSse serves them under /sse beside /mcp
SseOp(method) == IF variant = "StreamSse" THEN method \o "/sse" ELSE method

\* whether the GET handler registers req.on('close', ...)
HasCloseListener == variant \in {"SseQuery", "SsePath", "StreamSse"}

GetSse ==
  /\ variant \in MapVariants \cup GlobalVariants \cup {"StreamSse"}
  /\ Len(tr) < MaxTransports
  /\ LET t == Len(tr) + 1 IN
     /\ tr' = Append(tr, NewTransport("sse", NewSid, HasCloseListener))
     /\ nextSid' = nextSid + 1
     /\ last' = Ev(SseOp("GET"), NoSid, "none", 200, Undefined, t, NewSid, FALSE)
     /\ IF variant \in MapVariants THEN
          \* transports.set(sessionId, transport); await server.connect(transport)
          /\ transports' = Put(transports, NewSid, t)
          /\ serverTransport' = t
          /\ UNCHANGED <<sseTransports, activeTransport>>
        ELSE IF variant \in GlobalVariants THEN
          \* activeTransport = new SSEServerTransport(...); await server.connect(activeTransport)
          /\ activeTransport' = t
          /\ serverTransport' = t
          /\ UNCHANGED <<transports, sseTransports>>
        ELSE
          \* sseTransports.set(sessionId, transport); createMcpServer().connect(transport)
          /\ sseTransports' = Put(sseTransports, NewSid, t)
          /\ UNCHANGED <<transports, activeTransport, serverTransport>>
  /\ UNCHANGED <<variant, calls>>
  /\ UNCHANGED queryVars

----------------------------------------------------------------------------
(* POST of the SSE variants *)

\* the status of the handler's own rejection
RejectStatus ==
  CASE variant \in {"SsePath", "SseNoClose"} -> 404
    [] variant = "GlobalB" -> 500
    [] OTHER -> 400

\* the identifiers a POST to an SSE route can carry: the handlers of the
\* Global variants read none (no req.query, no req.params)
SseSids == IF variant \in GlobalVariants THEN {NoSid} ELSE ClientSids \cup {NoSid}

\* the lookup, were the global reference to count only while its client is connected
SseLookupOpenOnly(sid) ==
  CASE variant \in MapVariants -> MapGet(transports, sid)
    [] variant \in GlobalVariants ->
         IF Truthy(activeTransport) /\ tr[activeTransport].open
           THEN activeTransport ELSE Undefined
    [] OTHER -> MapGet(sseTransports, sid)

\* what the POST handler looks up
SseLookup(sid) ==
  CASE variant \in MapVariants -> MapGet(transports, sid)
    [] variant \in GlobalVariants -> activeTransport
    [] OTHER -> MapGet(sseTransports, sid)

\* whether the handler wraps handlePostMessage in try/catch
CatchesPostError == variant = "SsePath"

\* transport.handlePostMessage(req, res) of transport t
HandlePostMessage(t, sid, body) ==
  IF ~tr[t].open THEN
    \* no SSE connection: the transport answers 500 and throws
    /\ last' = Ev(SseOp("POST"), sid, body, 500, t, Undefined, NoSid, ~CatchesPostError)
    /\ UNCHANGED <<tr, calls>>
  ELSE IF body = "call" THEN
    /\ BagCardinality(calls) < MaxCalls
    /\ calls' = calls (+) SetToBag({NewCall(sid, ReplyVia(t))})
    /\ last' = Ev(SseOp("POST"), sid, body, 202, t, Undefined, NoSid, FALSE)
    /\ UNCHANGED tr
  ELSE
    /\ last' = Ev(SseOp("POST"), sid, body, 202, t, Undefined, NoSid, FALSE)
    /\ UNCHANGED <<tr, calls>>

PostSse(sid, body) ==
  /\ variant \in MapVariants \cup GlobalVariants \cup {"StreamSse"}
  /\ IF Truthy(SseLookup(sid)) THEN
       HandlePostMessage(SseLookup(sid), sid, body)
     ELSE
       /\ last' = Ev(SseOp("POST"), sid, body, RejectStatus, Undefined, Undefined, NoSid, FALSE)
       /\ UNCHANGED <<tr, calls>>
  /\ UNCHANGED <<variant, transports, sseTransports, activeTransport, serverTransport, nextSid>>
  /\ UNCHANGED queryVars

----------------------------------------------------------------------------
(* The client of transport t goes away: 'close' on its connection *)

ClientDisconnect(t) ==
  /\ t \in Transports
  /\ tr[t].open
  /\ tr' = CloseTransport(t)
  /\ last' = Ev("close", tr[t].key, "none", 0, Undefined, Undefined, NoSid, FALSE)
  /\ IF tr[t].listener /\ variant \in MapVariants
       THEN transports' = CloseListener(transports, t)
       ELSE UNCHANGED transports
  /\ IF tr[t].listener /\ variant = "StreamSse"
       THEN sseTransports' = CloseListener(sseTransports, t)
       ELSE UNCHANGED sseTransports
  \* an SSE transport calls onclose, and the server it was connected to drops its _transport
  /\ IF tr[t].kind = "sse" /\ SharedServer
       THEN serverTransport' = Undefined
       ELSE UNCHANGED serverTransport
  /\ UNCHANGED <<variant, activeTransport, nextSid, calls>>
  /\ UNCHANGED queryVars

----------------------------------------------------------------------------
(* pool.query of the i-th waiting tool call settles; the tool returns its   *)
(* result and the server sends the response on the transport it captured.  *)

\* the handler, were it to have no catch block
ToolResultNoCatch(ok) == [text |-> IF ok THEN "rows" ELSE "none", threw |-> ~ok]

\* what a tool handler returns when its pool.query has settled:
\* try { ... return rows } catch (error) { return text with error.message }
ToolResult(ok) == [text |-> IF ok THEN "rows" ELSE "error", threw |-> FALSE]

\* `late`: the queries of the pool run side by side and settle in any order, so
\* of several calls of a session that came in alike any one may be the one that
\* settles, the one that arrived first or a later one
DbDone(c, ok, late) ==
  /\ c \in BagToSet(calls)
  /\ late => CopiesIn(c, calls) >= 2
  /\ LET sent == Truthy(c.via) /\ tr[c.via].open
         r == ToolResult(ok)
     IN  last' = [Ev("db", c.sid, IF ok THEN "resolved" ELSE "rejected",
                     IF sent THEN 200 ELSE 0, c.via, Undefined, NoSid, r.threw)
                  EXCEPT !.result = r.text, !.late = late]
  /\ calls' = calls (-) SetToBag({c})
  /\ UNCHANGED <<variant, transports, sseTransports, activeTransport, serverTransport,
                 tr, nextSid>>
  /\ UNCHANGED queryVars

----------------------------------------------------------------------------

Next ==
  \/ \E sid \in ClientSids \cup {NoSid}, body \in Bodies, valid \in BOOLEAN :
        PostMcp(sid, body, valid)
  \/ \E op \in {"GET", "DELETE"}, sid \in ClientSids \cup {NoSid} :
        SessionRequest(op, sid)
  \/ GetSse
  \/ \E sid \in SseSids, body \in Bodies : PostSse(sid, body)
  \/ \E t \in Transports : ClientDisconnect(t)
  \/ \E c \in BagToSet(calls), ok \in BOOLEAN, late \in BOOLEAN : DbDone(c, ok, late)

Spec == Init /\ [][Next]_vars

----------------------------------------------------------------------------
(* The process ends and is started again: every module-level binding is    *)
(* evaluated anew, every connection and every pending pool.query is gone.  *)
(* randomUUID() and Math.random() go on returning values not seen before.  *)

\* the store, were it to outlive the process
ModuleLoadKeeping(store) == store

\* const transports = {};  /  const transports = new Map();
ModuleLoad(store) == EmptyStore

Restart ==
  /\ transports' = ModuleLoad(transports)
  /\ sseTransports' = ModuleLoad(sseTransports)
  /\ activeTransport' = Undefined
  /\ serverTransport' = Undefined
  /\ calls' = EmptyBag
  /\ tr' = [t \in DOMAIN tr |-> [tr[t] EXCEPT !.open = FALSE, !.lost = TRUE]]
  /\ last' = Ev("restart", NoSid, "none", 0, Undefined, Undefined, NoSid, FALSE)
  /\ UNCHANGED <<variant, nextSid>>
  /\ UNCHANGED queryVars

NextRestart == Next \/ Restart

SpecRestart == Init /\ [][NextRestart]_vars

----------------------------------------------------------------------------
(* Properties of the session routers *)

\* the keys of the session store(s)
StoreKeys == (DOMAIN transports) \cup (DOMAIN sseTransports)

IsPost(e) == e.op \in {"POST", "POST/sse"}

\* a request that belongs to an existing session: a POST of a message, or the
\* GET of the response stream of the Streamable HTTP variants
IsContinuation(e) == (IsPost(e) \/ e.op = "GET") /\ e.sid # NoSid

\* the handler answered with its own 400-class rejection and did nothing else
IsRejection(e) ==
  /\ e.status \in {400, 404}
  /\ e.fwd = Undefined
  /\ e.created = Undefined
  /\ ~e.threw

\* the transport a POST carrying sid would be handed to, in the present state
Resolve(sid) ==
  CASE variant \in StreamVariants /\ sid \in DOMAIN transports ->
         IF PostBranch(sid, "call") = "existing" THEN ObjectGet(transports, sid) ELSE Undefined
    [] variant = "StreamSse" /\ sid \notin DOMAIN transports -> SseLookup(sid)
    [] variant = "StreamV1" /\ sid \notin DOMAIN transports -> Undefined
    [] OTHER -> SseLookup(sid)

\* C1: in every variant a continuation request whose identifier is no key of
\* the session store is rejected with the session-expired response, and the
\* step changes no store, creates no transport and starts no database call.
C1_UnknownSidRejected ==
  [][ (IsContinuation(last') /\ last'.sid \notin StoreKeys)
        => /\ IsRejection(last')
           /\ transports' = transports
           /\ sseTransports' = sseTransports
           /\ activeTransport' = activeTransport
           /\ tr' = tr
           /\ calls' = calls ]_vars

\* a continuation carrying the identifier just issued reaches the transport just created
IssuedResolves == last.issued # NoSid => Resolve(last.issued) = last.created

\* C2: the identifier an initialization creates is no key of a live session,
\* the step overwrites no entry of a store, and right after it a continuation
\* carrying the new identifier is handed to the transport just created.
C2_FreshIdAccepted ==
  [][ (last'.issued # NoSid /\ last'.created # Undefined)
        => /\ last'.issued \notin StoreKeys
           /\ \A k \in DOMAIN transports :
                k \in DOMAIN transports' /\ transports'[k] = transports[k]
           /\ \A k \in DOMAIN sseTransports :
                k \in DOMAIN sseTransports' /\ sseTransports'[k] = sseTransports[k]
           /\ IssuedResolves' ]_vars

\* C2 witness: a second session was just created beside a live one and its
\* identifier resolves to its own transport.
C2_Witness ==
  /\ last.issued # NoSid
  /\ Cardinality(StoreKeys) >= 2
  /\ Resolve(last.issued) = last.created
  /\ \E t \in Transports : t # last.created /\ tr[t].open

\* C3: mcpPostHandler rejects a POST that has no session identifier and is no
\* initialization message with status 400; the step creates no transport and
\* changes no store.
C3_NoSidNonInitRejected ==
  [][ (variant \in StreamVariants /\ last'.op = "POST" /\ last'.sid = NoSid
         /\ ~isInitializeRequest(last'.body))
        => /\ last'.status = 400
           /\ last'.created = Undefined
           /\ last'.fwd = Undefined
           /\ last'.issued = NoSid
           /\ transports' = transports
           /\ sseTransports' = sseTransports
           /\ tr' = tr
           /\ calls' = calls ]_vars

\* C3 witness: such a POST was rejected while a session was live.
C3_Witness ==
  /\ variant \in StreamVariants
  /\ last.op = "POST" /\ last.sid = NoSid /\ ~isInitializeRequest(last.body)
  /\ last.status = 400
  /\ DOMAIN transports # {}

\* C4: in every variant no store entry remains for a session whose client
\* connection has closed (the entry goes at the close event).
C4_NoEntryForClosedConnection ==
  /\ \A k \in DOMAIN transports : tr[transports[k]].open
  /\ \A k \in DOMAIN sseTransports : tr[sseTransports[k]].open

\* C5: when the client of a session that has just been answered a tool result
\* disconnects, the session's identifier is no key of a store afterwards; and
\* a continuation that carries the identifier of a session whose client is
\* gone is rejected (the session is not active again).
C5_ClosedSessionStaysClosed ==
  [][ /\ (last.op = "db" /\ last.status = 200 /\ last.sid # NoSid
            /\ last'.op = "close" /\ last'.sid = last.sid)
          => last'.sid \notin StoreKeys'
      /\ (IsContinuation(last') /\ ~isInitializeRequest(last'.body)
            /\ \E t \in Transports : tr[t].key = last'.sid /\ ~tr[t].open)
          => IsRejection(last') ]_vars

\* C6: two sessions have distinct identifiers, and the response to a request
\* submitted under one session is written on that session's own stream.
C6_ResponseOnOwnStream ==
  /\ \A t, u \in Transports : (t # u /\ tr[t].key # NoSid) => tr[t].key # tr[u].key
  /\ (last.op = "db" /\ last.status = 200 /\ \E t \in Transports : tr[t].key = last.sid)
       => tr[last.fwd].key = last.sid

\* C7: no session has two tool calls waiting on the database at once.
C7_OneCallInFlightPerSession ==
  \A c, d \in BagToSet(calls) :
    c.sid = d.sid => (c = d /\ CopiesIn(c, calls) = 1)

\* C7 witness: two sessions each have a tool call waiting on the database.
C7_Witness ==
  \E c, d \in BagToSet(calls) :
    /\ c.sid # d.sid
    /\ \E t, u \in Transports : tr[t].key = c.sid /\ tr[u].key = d.sid

\* C10: a new connection for the global slot that still holds a transport with
\* an open connection is rejected, and the slot keeps its transport.
C10_LiveConnectionNotReplaced ==
  [][ (variant \in GlobalVariants /\ Truthy(activeTransport)
         /\ tr[activeTransport].open /\ last'.op = "GET")
        => /\ activeTransport' = activeTransport
           /\ last'.created = Undefined ]_vars

\* C11: where /mcp and /sse are both served, an identifier issued in one mode
\* resolves to the same transport when it is presented in the other mode.
C11_ModesShareNamespace ==
  variant = "StreamSse" =>
    /\ \A k \in DOMAIN transports : MapGet(sseTransports, k) = transports[k]
    /\ \A k \in DOMAIN sseTransports : ObjectGet(transports, k) = sseTransports[k]

\* whether a POST carrying the identifier of the last event reaches a transport
LastSidResolves == Resolve(last.sid)

\* C12: when the database call of a tool fails, the handler returns an error
\* result with the message and does not throw, no store and no transport
\* changes, and the identifier resolves afterwards as it did before.
C12_DbFailureKeepsSession ==
  [][ (last'.op = "db" /\ last'.body = "rejected")
        => /\ last'.result = "error"
           /\ ~last'.threw
           /\ transports' = transports
           /\ sseTransports' = sseTransports
           /\ activeTransport' = activeTransport
           /\ tr' = tr
           /\ LastSidResolves' = Resolve(last'.sid) ]_vars

\* C12 witness: a database call of a live session failed, the error result
\* went out, and the session's identifier still reaches its open transport.
C12_Witness ==
  /\ last.op = "db" /\ last.body = "rejected"
  /\ last.result = "error" /\ last.status = 200
  /\ last.sid \in StoreKeys
  /\ Resolve(last.sid) \in Transports
  /\ tr[Resolve(last.sid)].open

\* C13: no exception and no rejected promise leaves a route handler: every
\* failure met while handling a request is caught inside the handler.
C13_NoFailureEscapesHandler == ~last.threw

\* the keys that left a store in a step: deleting one again, directly or by
\* either close callback of its transport, changes nothing, and every other
\* entry of the store is as it was
RemovedOnce(before, after) ==
  \A k \in (DOMAIN before) \ (DOMAIN after) :
    /\ Del(after, k) = after
    /\ OnClose(after, before[k]) = after
    /\ CloseListener(after, before[k]) = after
    /\ \A j \in (DOMAIN before) \ {k} : j \in DOMAIN after /\ after[j] = before[j]

\* the keys that entered a store in a step were never issued before, so no
\* key that has left a store returns to it
NeverKeyBefore(before, after) ==
  \A k \in (DOMAIN after) \ (DOMAIN before) : k >= nextSid

\* C14: deleting a store entry is idempotent: after an entry is deleted a
\* second delete of its key is a no-op, a delete removes no other entry, and
\* no entry is removed twice (a deleted key never enters a store again).
C14_DeleteOnceAndIdempotent ==
  [][ /\ RemovedOnce(transports, transports')
      /\ RemovedOnce(sseTransports, sseTransports')
      /\ NeverKeyBefore(transports, transports')
      /\ NeverKeyBefore(sseTransports, sseTransports')
      /\ \A k \in StoreKeys : k < nextSid ]_vars

\* C14 witness: an entry was just deleted while another session's entry stays.
C14_Witness ==
  /\ last.op \in {"close", "DELETE"}
  /\ last.op = "DELETE" => last.status = 200
  /\ last.sid # NoSid
  /\ \E t \in Transports : tr[t].key = last.sid /\ ~tr[t].open
  /\ last.sid \notin StoreKeys
  /\ variant \notin GlobalVariants
  /\ StoreKeys # {}

\* the keys that entered a store in a step belong to a session whose handshake
\* succeeded in that step: the step handled an initialization message, answered
\* it 200, the key is the identifier issued, and the entry is the transport
\* that now carries it
EnteredByHandshake(before, after) ==
  \A k \in (DOMAIN after) \ (DOMAIN before) :
    /\ IsPost(last') /\ isInitializeRequest(last'.body)
    /\ last'.status = 200
    /\ last'.issued = k
    /\ last'.created = after[k]
    /\ tr'[after[k]].key = k

\* C15: an identifier becomes a key of a store only in a step in which the
\* handshake of its session succeeds; a handshake that fails adds nothing.
C15_EntryOnlyAfterHandshake ==
  [][ /\ EnteredByHandshake(transports, transports')
      /\ EnteredByHandshake(sseTransports, sseTransports')
      /\ (last'.created # Undefined /\ last'.status # 200)
           => (transports' = transports /\ sseTransports' = sseTransports) ]_vars

\* an event that is a request of a client
IsRequest(e) == e.op \notin {"none", "close", "db", "restart"}

\* C16: every response that refuses a request (malformed, or its identifier
\* missing, unknown or expired) has a status of the 400 class, in every variant.
C16_RejectionsAre400Class ==
  (IsRequest(last) /\ last.status \notin {0, 200, 202}) => last.status \in 400..499

\* the responses written for a request: one by the handler's own rejection
\* branch, one by the transport the request was handed to
HandlerResponses(e) == IF e.fwd = Undefined /\ e.status # 0 THEN 1 ELSE 0
TransportResponses(e) == IF e.fwd # Undefined /\ e.status # 0 THEN 1 ELSE 0

\* C17: every POST gets exactly one response: never none, also when handling
\* the message fails, and never one from the handler and one from the transport.
C17_ExactlyOneResponsePerPost ==
  IsPost(last) => HandlerResponses(last) + TransportResponses(last) = 1

\* the keys that entered a store in a step: there is one, it is the value the
\* generator returned in this step, and the request supplied no identifier
EnteredFromGenerator(before, after) ==
  \A k \in (DOMAIN after) \ (DOMAIN before) :
    /\ k = NewSid
    /\ nextSid' = nextSid + 1
    /\ last'.sid = NoSid
    /\ last'.issued = k

\* no transport is stored under two keys
OneKeyPerSession(store) ==
  \A k, j \in DOMAIN store : store[k] = store[j] => k = j

\* C18: every key of a store is a value of the server's generator, entered
\* once when its session was created; a request that supplies an identifier
\* adds no key.
C18_KeysFromGeneratorOnly ==
  [][ /\ EnteredFromGenerator(transports, transports')
      /\ EnteredFromGenerator(sseTransports, sseTransports')
      /\ last'.sid # NoSid =>
           (DOMAIN transports' \subseteq DOMAIN transports
              /\ DOMAIN sseTransports' \subseteq DOMAIN sseTransports)
      /\ OneKeyPerSession(transports) /\ OneKeyPerSession(sseTransports)
      /\ StoreKeys \subseteq 1..(nextSid - 1) ]_vars

\* C18 witness: an initialization message that carried an identifier of the
\* client's choosing was handled, and that identifier is no key of a store.
C18_Witness ==
  /\ IsPost(last) /\ isInitializeRequest(last.body)
  /\ last.sid # NoSid
  /\ last.sid \notin StoreKeys
  /\ StoreKeys # {}

\* C20: in every Streamable HTTP variant a DELETE for a live session is
\* answered 200, closes the session and deletes its store entry; a DELETE for
\* an identifier that is no key is refused with a 400-class status and changes
\* nothing.
C20_TerminationClosesSession ==
  [][ (variant \in StreamVariants /\ last'.op = "DELETE")
        => IF last'.sid \in DOMAIN transports
             THEN /\ last'.status = 200
                  /\ last'.sid \notin DOMAIN transports'
                  /\ ~tr'[transports[last'.sid]].open
             ELSE /\ last'.status \in 400..499
                  /\ transports' = transports
                  /\ tr' = tr
                  /\ calls' = calls ]_vars

\* C21: on one session responses are produced in the order of the requests:
\* when the database call of a request settles and its response is produced,
\* no request that arrived earlier on the same session still waits.
C21_SessionOrderPreserved == last.op = "db" => ~last.late

\* the client of the session that carries identifier sid has gone away
SessionClosed(sid) ==
  sid # NoSid /\ \E t \in Transports : tr[t].key = sid /\ ~tr[t].open

\* C22: a close of a connection leaves the waiting tool calls as they are; and
\* when the database call of a session whose connection has closed settles,
\* its result is sent to nobody, nothing is thrown, the session's identifier
\* is no key of a store and the step changes no store.
C22_CallOutlivesClosedSession ==
  [][ /\ last'.op = "close" => calls' = calls
      /\ (last'.op = "db" /\ SessionClosed(last'.sid))
           => /\ last'.status = 0
              /\ ~last'.threw
              /\ last'.sid \notin StoreKeys'
              /\ transports' = transports
              /\ sseTransports' = sseTransports ]_vars

C25_CapabilitiesFixedAtCreation ==
  \A t \in Transports : tr[t].tools = createMcpServer

\* C25 witness: a session that was created, used for a tool call and closed
\* has the tools it was created with.
C25_Witness ==
  /\ last.op = "db"
  /\ \E t \in Transports :
       /\ tr[t].key = last.sid /\ last.sid # NoSid
       /\ ~tr[t].open
       /\ tr[t].tools = createMcpServer
       /\ "run_select_query" \in tr[t].tools

\* the identifier was issued by a process that has ended since
IssuedBeforeRestart(sid) ==
  sid # NoSid /\ \E t \in Transports : tr[t].key = sid /\ tr[t].lost

\* C26: a restart leaves every store empty and no tool call waiting; from then
\* on no identifier issued before the restart is a key of a store, a
\* continuation that carries one is refused with the handler's session-expired
\* response, and an initialization after the restart yields an identifier
\* that reaches the transport it created.
C26_RestartInvalidatesSessions ==
  /\ last.op = "restart"
       => /\ StoreKeys = {}
          /\ activeTransport = Undefined
          /\ calls = EmptyBag
  /\ \A k \in StoreKeys : ~IssuedBeforeRestart(k)
  /\ (IsContinuation(last) /\ IssuedBeforeRestart(last.sid)) => IsRejection(last)
  /\ ((\E t \in Transports : tr[t].lost) /\ last.issued # NoSid) => IssuedResolves

\* C26 witness: after a restart that ended a session, a new session was
\* initialized, the old identifier was refused, and the new one still resolves.
C26_Witness ==
  /\ IsPost(last) /\ IssuedBeforeRestart(last.sid) /\ IsRejection(last)
  /\ \E k \in StoreKeys :
       /\ ~IssuedBeforeRestart(k)
       /\ Resolve(k) \in Transports
       /\ tr[Resolve(k)].open /\ ~tr[Resolve(k)].lost

\* C28: in the Streamable HTTP variants every key of transports refers to the
\* transport whose sessionId is that key, no transport is stored under two
\* keys, and the onclose callback of a transport removes the entry under its
\* own sessionId and no other.
C28_StoreConsistent ==
  variant \in StreamVariants =>
    /\ \A k \in DOMAIN transports :
         transports[k] \in Transports /\ tr[transports[k]].key = k
    /\ OneKeyPerSession(transports)
    /\ \A t \in Transports :
         tr[t].kind = "http" =>
           /\ DOMAIN OnClose(transports, t) = (DOMAIN transports) \ {tr[t].key}
           /\ \A k \in DOMAIN OnClose(transports, t) :
                OnClose(transports, t)[k] = transports[k]

\* C28 witness: of two sessions one was ended by DELETE and the entry of the
\* other is in the store under its own sessionId.
C28_Witness ==
  /\ variant \in StreamVariants
  /\ last.op = "DELETE" /\ last.status = 200
  /\ last.sid \notin DOMAIN transports
  /\ \E k \in DOMAIN transports : k # last.sid /\ tr[transports[k]].key = k

\* C29: mcpPostHandler rejects with status 400 every POST whose identifier is
\* no key of the store, an initialization message included: the step creates
\* no transport and adds no key, so a session is created only by a POST
\* without identifier.
C29_UnknownSidNeverInitializes ==
  [][ (variant \in StreamVariants /\ last'.op = "POST"
         /\ last'.sid # NoSid /\ last'.sid \notin DOMAIN transports)
        => /\ last'.status = 400
           /\ IsRejection(last')
           /\ last'.issued = NoSid
           /\ transports' = transports
           /\ tr' = tr ]_vars

\* the transports created since the process started
SinceStart == {t \in Transports : ~tr[t].lost}

\* C30: in the variants with one global transport the reference is the
\* transport of the latest GET since the process started, whether or not its
\* client is still connected, and none before the first GET; a POST is
\* refused by the handler exactly when the reference is unset, and is handed
\* to the referenced transport otherwise.
C30_GlobalReferenceNeverReset ==
  variant \in GlobalVariants =>
    /\ activeTransport =
         (IF SinceStart = {} THEN Undefined
          ELSE CHOOSE t \in SinceStart : \A u \in SinceStart : u <= t)
    /\ last.op = "POST" =>
         IF SinceStart = {}
           THEN last.fwd = Undefined /\ last.status \in {400, 500}
           ELSE last.fwd = activeTransport

\* C30 witness: a POST was handed to the transport of the latest GET after
\* the client of that transport had disconnected.
C30_Witness ==
  /\ variant \in GlobalVariants
  /\ last.op = "POST"
  /\ Len(tr) >= 2
  /\ last.fwd = Len(tr)
  /\ ~tr[last.fwd].open /\ ~tr[last.fwd].lost

\* every entry of the store under a key other than sid is as it was
OthersKept(before, after, sid) ==
  \A k \in (DOMAIN before) \ {sid} : k \in DOMAIN after /\ after[k] = before[k]

\* C31: a step that closes a session (its client disconnects, or a DELETE is
\* accepted) removes no entry but the one under the session's identifier and
\* changes no transport but the session's own, and a step that rejects a
\* request changes no store and no transport.
C31_CloseAndRejectAreLocal ==
  [][ /\ (last'.op = "close" \/ (last'.op = "DELETE" /\ last'.status = 200))
           => /\ OthersKept(transports, transports', last'.sid)
              /\ OthersKept(sseTransports, sseTransports', last'.sid)
              /\ DOMAIN tr' = DOMAIN tr
              /\ \A t \in Transports : tr[t].key # last'.sid => tr'[t] = tr[t]
              /\ activeTransport' = activeTransport
      /\ (IsRequest(last') /\ IsRejection(last'))
           => /\ transports' = transports
              /\ sseTransports' = sseTransports
              /\ activeTransport' = activeTransport
              /\ tr' = tr ]_vars

\* C31 witness: the close listener of one session removed its entry while the
\* entry of another session, its client connected, stays in the store.
C31_Witness ==
  /\ last.op = "close"
  /\ \E t \in Transports : tr[t].key = last.sid /\ tr[t].listener /\ ~tr[t].open
  /\ last.sid \notin StoreKeys
  /\ \E k \in StoreKeys : Resolve(k) \in Transports /\ tr[Resolve(k)].open

----------------------------------------------------------------------------
(* run_select_query.  A statement is a sequence of characters. *)

LowerCase == <<"a","b","c","d","e","f","g","h","i","j","k","l","m",
               "n","o","p","q","r","s","t","u","v","w","x","y","z">>
UpperCase == <<"A","B","C","D","E","F","G","H","I","J","K","L","M",
               "N","O","P","Q","R","S","T","U","V","W","X","Y","Z">>
Digits == {"0","1","2","3","4","5","6","7","8","9"}

Range(f) == {f[i] : i \in DOMAIN f}

\* String.prototype.toUpperCase, character by character
ToUpperChar(c) ==
  IF c \in Range(LowerCase)
    THEN UpperCase[CHOOSE i \in 1..26 : LowerCase[i] = c]
    ELSE c
ToUpperCase(s) == [i \in 1..Len(s) |-> ToUpperChar(s[i])]

\* the characters String.prototype.trim removes (those the payloads use)
IsSpace(c) == c \in {" ", "\n", "\t"}

\* String.prototype.trim
Trim(s) ==
  LET keep == {i \in 1..Len(s) : ~IsSpace(s[i])} IN
  IF keep = {} THEN <<>>
  ELSE SubSeq(s, CHOOSE i \in keep : \A j \in keep : i <= j,
                 CHOOSE i \in keep : \A j \in keep : i >= j)

\* String.prototype.startsWith
StartsWith(s, p) == Len(s) >= Len(p) /\ SubSeq(s, 1, Len(p)) = p

\* \w of a regular expression
IsWordChar(c) == c \in Range(LowerCase) \cup Range(UpperCase) \cup Digits \cup {"_"}

KwSELECT == <<"S","E","L","E","C","T">>
KwWITH == <<"W","I","T","H">>
KwINSERT == <<"I","N","S","E","R","T">>
KwUPDATE == <<"U","P","D","A","T","E">>
KwDELETE == <<"D","E","L","E","T","E">>
KwDROP == <<"D","R","O","P">>
KwALTER == <<"A","L","T","E","R">>
KwTRUNCATE == <<"T","R","U","N","C","A","T","E">>

\* the alternatives of /\b(INSERT|UPDATE|DELETE|DROP|ALTER|TRUNCATE)\b/i
Forbidden == {KwINSERT, KwUPDATE, KwDELETE, KwDROP, KwALTER, KwTRUNCATE}

\* \bW\b matches s at position i, letters compared without case (flag i)
WordAt(s, w, i) ==
  /\ i + Len(w) - 1 <= Len(s)
  /\ ToUpperCase(SubSeq(s, i, i + Len(w) - 1)) = w
  /\ (i = 1 \/ ~IsWordChar(s[i - 1]))
  /\ (i + Len(w) - 1 = Len(s) \/ ~IsWordChar(s[i + Len(w)]))

HasWord(s, words) == \E w \in words : \E i \in 1..Len(s) : WordAt(s, w, i)

\* the test, were the expression to lack the flag i
ForbiddenTestCaseSensitive(s) ==
  \E w \in Forbidden : \E i \in 1..Len(s) :
    WordAt(s, w, i) /\ SubSeq(s, i, i + Len(w) - 1) = w

\* /\b(INSERT|UPDATE|DELETE|DROP|ALTER|TRUNCATE)\b/i.test(sql_query)
ForbiddenTest(s) == HasWord(s, Forbidden)

\* upper.startsWith("SELECT") || upper.startsWith("WITH"), upper = sql_query.trim().toUpperCase()
PrefixOk(s) ==
  LET upper == ToUpperCase(Trim(s)) IN
  StartsWith(upper, KwSELECT) \/ StartsWith(upper, KwWITH)

\* the two checks of run_select_query in their order
Verdict(s) ==
  IF ~PrefixOk(s) THEN "secPrefix"
  ELSE IF ForbiddenTest(s) THEN "secDeny"
  ELSE "pass"

\* the handler, were its security branches not to return
ReachesQueryAlways(s) == TRUE

\* whether the handler goes on to pool.query(sql_query)
ReachesQuery(s) == Verdict(s) = "pass"

\* the payloads: up to MaxAtoms of these pieces, joined
Atoms ==
  { <<" ">>, <<"\n">>, <<";">>, <<"x">>,
    KwSELECT, <<"W","i","t","h">>,
    KwINSERT, <<"u","p","d","a","t","e">>, KwDELETE, KwDROP,
    <<"a","l","t","e","r">>, <<"T","r","u","n","c","a","t","e">>,
    <<"C","R","E","A","T","E">> }

RECURSIVE Join(_)
Join(pieces) == IF pieces = <<>> THEN <<>> ELSE Head(pieces) \o Join(Tail(pieces))

Payloads == UNION { {Join(p) : p \in [1..n -> Atoms]} : n \in 0..MaxAtoms }

RouterIdle ==
  /\ variant = "StreamV1"
  /\ transports = EmptyStore
  /\ sseTransports = EmptyStore
  /\ activeTransport = Undefined
  /\ serverTransport = Undefined
  /\ tr = <<>>
  /\ nextSid = 1
  /\ calls = EmptyBag
  /\ last = NoEv

\* the tools of createMcpServer that query the database
FixedQueryTools == {"list_tables", "get_table_schema"}
SchemaTools == {"get_api_schema_summary", "get_api_schema_detail", "get_field_description"}
Tools == {"run_select_query"} \cup FixedQueryTools \cup SchemaTools

\* the statement a tool other than run_select_query sends: a SELECT written in the code
FixedQuery == KwSELECT \o <<" ", "x">>

\* a handler, were it to send its statement twice
PoolQueryTwice(q) == <<q, q>>

\* await pool.query(q): what one handler gives to the pool
PoolQuery(q) == <<q>>

InitQuery ==
  /\ RouterIdle
  /\ tool \in Tools
  /\ sql \in (IF tool = "run_select_query" THEN Payloads ELSE {FixedQuery})
  /\ qpc = "start"
  /\ qres = "none"
  /\ dbq = <<>>
  /\ rows = <<>>
  /\ fres = NoResult

\* the handler up to its await: the checks, then pool.query(sql_query)
RunSelectQuery ==
  /\ tool = "run_select_query"
  /\ qpc = "start"
  /\ IF ReachesQuery(sql)
       THEN /\ dbq' = dbq \o PoolQuery(sql)
            /\ qpc' = "db"
            /\ qres' = qres
       ELSE /\ qres' = Verdict(sql)
            /\ qpc' = "done"
            /\ dbq' = dbq
  /\ UNCHANGED <<tool, sql, routerVars, fieldVars>>

\* the handler of another tool up to its await: try { await pool.query(query, ...) }
ToolQuery ==
  /\ tool \in FixedQueryTools \cup SchemaTools
  /\ qpc = "start"
  /\ dbq' = dbq \o PoolQuery(sql)
  /\ qpc' = "db"
  /\ UNCHANGED <<tool, sql, qres, routerVars, fieldVars>>

\* what a handler returns when its query resolved: the rows, or for the schema
\* tools the message that nothing was found
Resolved == IF tool \in SchemaTools THEN {"rows", "notFound"} ELSE {"rows"}

\* pool.query resolves
QueryResolves ==
  /\ qpc = "db"
  /\ qres' \in Resolved
  /\ qpc' = "done"
  /\ UNCHANGED <<tool, sql, dbq, routerVars, fieldVars>>

\* pool.query rejects: the catch block returns the SQL error text
QueryRejects ==
  /\ qpc = "db"
  /\ qres' = "sqlError"
  /\ qpc' = "done"
  /\ UNCHANGED <<tool, sql, dbq, routerVars, fieldVars>>

NextQuery == RunSelectQuery \/ ToolQuery \/ QueryResolves \/ QueryRejects

SpecQuery == InitQuery /\ [][NextQuery]_vars

----------------------------------------------------------------------------
(* Properties of run_select_query *)

\* the first token of a payload: the word characters that follow its leading whitespace
FirstToken(s) ==
  LET body == {i \in 1..Len(s) : ~IsSpace(s[i])}
      from == IF body = {} THEN Len(s) + 1 ELSE CHOOSE i \in body : \A j \in body : i <= j
      stop == {i \in from..Len(s) : ~IsWordChar(s[i])}
      to == IF stop = {} THEN Len(s) ELSE (CHOOSE i \in stop : \A j \in stop : i <= j) - 1
  IN  SubSeq(s, from, to)

FirstTokenIsMutationVerb(s) == ToUpperCase(FirstToken(s)) \in Forbidden

\* C8: a payload whose first token after leading whitespace is INSERT, UPDATE,
\* DELETE, DROP, ALTER or TRUNCATE in any casing ends in a security-error
\* result and is never given to pool.query.
C8_MutationVerbFirstRejected ==
  (qpc # "off" /\ FirstTokenIsMutationVerb(sql))
    => /\ dbq = <<>>
       /\ qpc # "db"
       /\ qpc = "done" => qres \in {"secPrefix", "secDeny"}

\* C8 witness: a payload with leading whitespace and a verb not in upper case was rejected.
C8_Witness ==
  /\ qpc = "done"
  /\ FirstTokenIsMutationVerb(sql)
  /\ IsSpace(sql[1])
  /\ FirstToken(sql) # ToUpperCase(FirstToken(sql))
  /\ qres = "secPrefix"
  /\ dbq = <<>>

\* position i of s begins a statement: only whitespace lies between it and the
\* start of the payload or the ";" before it
StatementStart(s, i) ==
  LET before == {j \in 1..(i - 1) : ~IsSpace(s[j])} IN
  before = {} \/ s[CHOOSE j \in before : \A k \in before : j >= k] = ";"

\* a payload that changes data or schema: one of its statements begins with a
\* verb of the deny list or with CREATE
ChangesDatabase(s) ==
  \E w \in Forbidden \cup {<<"C","R","E","A","T","E">>} :
    \E i \in 1..Len(s) : WordAt(s, w, i) /\ StatementStart(s, i)

\* C9: no statement that changes data or schema is given to pool.query.
C9_OnlyReadOnlyReachesDatabase ==
  \A i \in 1..Len(dbq) : ~ChangesDatabase(dbq[i])

\* C19: an invocation of a query tool that succeeds has given exactly one
\* statement to pool.query, one that input validation refused has given none,
\* and no invocation gives more than one.
C19_OneDatabaseCallPerInvocation ==
  /\ Len(dbq) <= 1
  /\ (qpc = "done" /\ qres \in {"rows", "notFound"}) => Len(dbq) = 1
  /\ (qpc = "done" /\ qres \in {"secPrefix", "secDeny"}) => Len(dbq) = 0
  /\ qpc = "db" => Len(dbq) = 1

\* C19 witness: run_select_query returned rows for a statement longer than its
\* keyword, after one call.
C19_Witness ==
  /\ tool = "run_select_query"
  /\ qpc = "done" /\ qres = "rows"
  /\ Len(sql) > Len(KwSELECT)
  /\ dbq = <<sql>>

\* the statement begins with SELECT or WITH once leading whitespace is set
\* aside and letters are compared without case
BeginsReadOnly(s) ==
  \E w \in {KwSELECT, KwWITH} : \E i \in 1..Len(s) :
    /\ \A j \in 1..(i - 1) : IsSpace(s[j])
    /\ i + Len(w) - 1 <= Len(s)
    /\ \A k \in 1..Len(w) : ToUpperChar(s[i + k - 1]) = w[k]

\* the whole words of a statement: its maximal runs of word characters
WordStarts(s) ==
  {i \in 1..Len(s) : IsWordChar(s[i]) /\ (i = 1 \/ ~IsWordChar(s[i - 1]))}
WordEnd(s, i) ==
  LET ends == {j \in i..Len(s) : j = Len(s) \/ ~IsWordChar(s[j + 1])}
  IN  CHOOSE j \in ends : \A k \in ends : j <= k
WholeWords(s) == {SubSeq(s, i, WordEnd(s, i)) : i \in WordStarts(s)}

\* one of the six mutation keywords is a whole word of the statement, in any casing
MutationWordIn(s) == \E w \in WholeWords(s) : ToUpperCase(w) \in Forbidden

\* C24: run_select_query gives a statement to pool.query only if the statement
\* begins with SELECT or WITH after trimming and upper-casing and none of
\* INSERT, UPDATE, DELETE, DROP, ALTER, TRUNCATE is a whole word of it in any
\* casing; a statement that fails either check ends in a security-error result
\* with nothing given to pool.query.
C24_BothChecksGuardDatabase ==
  (tool = "run_select_query" /\ qpc # "off")
    => LET passes == BeginsReadOnly(sql) /\ ~MutationWordIn(sql) IN
       /\ dbq # <<>> => (dbq = <<sql>> /\ passes)
       /\ (qpc = "done" /\ ~passes)
            => (qres \in {"secPrefix", "secDeny"} /\ dbq = <<>>)

\* C24 witness: a statement that begins with a read-only keyword and holds a
\* mutation keyword not written in upper case was refused by the second check.
C24_Witness ==
  /\ tool = "run_select_query"
  /\ qpc = "done" /\ qres = "secDeny"
  /\ BeginsReadOnly(sql) /\ MutationWordIn(sql)
  /\ ~ForbiddenTestCaseSensitive(sql)
  /\ dbq = <<>>

----------------------------------------------------------------------------
(* get_field_description.  What the handler reads of the row it fetched,   *)
(* for the field_name it was called with: per section of full_schema in    *)
(* the order of Object.entries, whether sectionData[field_name] is truthy  *)
(* (direct) and whether some subData.values[field_name] is (enum); and of  *)
(* field_descriptions whether it is null, or some value[field_name] is     *)
(* truthy.                                                                 *)

Sections == [direct : BOOLEAN, enum : BOOLEAN]

Schemas == UNION { [1..n -> Sections] : n \in 0..MaxSections }

FieldDescriptions == {"null", "without", "with"}

\* result.rows of SELECT full_schema, field_descriptions FROM api_schemas WHERE ...
RowSets ==
  {<<>>} \cup { <<[full_schema |-> s, field_descriptions |-> d]>> :
                  s \in Schemas, d \in FieldDescriptions }

\* the loop over Object.entries(fullSchema) from section i on: in each section
\* the direct test, then the loop over its sub-fields, then the next section
RECURSIVE SearchSections(_, _)
SearchSections(fullSchema, i) ==
  IF i > Len(fullSchema) THEN NoResult
  ELSE IF fullSchema[i].direct THEN [success |-> TRUE, stage |-> "field", section |-> i]
  ELSE IF fullSchema[i].enum THEN [success |-> TRUE, stage |-> "enum", section |-> i]
  ELSE SearchSections(fullSchema, i + 1)

\* the loop over Object.entries(fieldDescriptions)
SearchDescriptions(fieldDescriptions) ==
  IF fieldDescriptions = "with"
    THEN [success |-> TRUE, stage |-> "description", section |-> 0]
    ELSE NoResult

\* the handler after its await, on the rows it was given
GetFieldDescription(rs) ==
  IF Len(rs) = 0 THEN [success |-> FALSE, stage |-> "noSchema", section |-> 0]
  ELSE LET inSchema == SearchSections(rs[1].full_schema, 1) IN
       IF inSchema.success THEN inSchema
       ELSE IF SearchDescriptions(rs[1].field_descriptions).success
         THEN SearchDescriptions(rs[1].field_descriptions)
       ELSE [success |-> FALSE, stage |-> "notFound", section |-> 0]

InitField ==
  /\ RouterIdle
  /\ tool = "get_field_description"
  /\ sql = FixedQuery
  /\ qpc = "start"
  /\ qres = "none"
  /\ dbq = <<>>
  /\ rows \in RowSets
  /\ fres = NoResult

\* the handler up to its await: const result = await pool.query(query)
FieldQuery ==
  /\ qpc = "start"
  /\ dbq' = dbq \o PoolQuery(sql)
  /\ qpc' = "db"
  /\ UNCHANGED <<tool, sql, qres, routerVars, fieldVars>>

\* pool.query resolves with the rows
FieldResolves ==
  /\ qpc = "db"
  /\ fres' = GetFieldDescription(rows)
  /\ qres' = "rows"
  /\ qpc' = "done"
  /\ UNCHANGED <<tool, sql, dbq, routerVars, rows>>

\* pool.query rejects: the catch block returns success false with the message
FieldRejects ==
  /\ qpc = "db"
  /\ fres' = [success |-> FALSE, stage |-> "error", section |-> 0]
  /\ qres' = "sqlError"
  /\ qpc' = "done"
  /\ UNCHANGED <<tool, sql, dbq, routerVars, rows>>

NextField == FieldQuery \/ FieldResolves \/ FieldRejects

SpecField == InitField /\ [][NextField]_vars

----------------------------------------------------------------------------
(* Properties of get_field_description *)

\* what the stages find in the whole of the row
DirectAnywhere(r) == \E i \in 1..Len(r.full_schema) : r.full_schema[i].direct
EnumAnywhere(r) == \E i \in 1..Len(r.full_schema) : r.full_schema[i].enum
DescribedAnywhere(r) == r.field_descriptions = "with"

\* C27: get_field_description answers from the first of its three stages that
\* finds the name anywhere: a direct field of a section; else an enum value of
\* a field, only if no section has the name as a direct field; else an entry
\* of field_descriptions, only if the schema has neither; and success false if
\* no stage finds it.
C27_StagesInOrder ==
  (qpc = "done" /\ qres = "rows" /\ rows # <<>>)
    => LET r == rows[1] IN
       /\ fres.stage = "field" => DirectAnywhere(r)
       /\ fres.stage = "enum" => (EnumAnywhere(r) /\ ~DirectAnywhere(r))
       /\ fres.stage = "description"
            => (DescribedAnywhere(r) /\ ~DirectAnywhere(r) /\ ~EnumAnywhere(r))
       /\ fres.success = (DirectAnywhere(r) \/ EnumAnywhere(r) \/ DescribedAnywhere(r))

====
